---- MODULE Spec2Model ----
(***************************************************************************)
(* Model of arrow2's MutableBuffer<T> (src/src/buffer/mutable.rs): the     *)
(* growable, 64-byte-aligned buffer, its constructors, its mutating        *)
(* operations and its conversion into the shared immutable Bytes/Buffer.   *)
(*                                                                         *)
(* Memory is modelled by cells.  `mem` holds the cells of the block `ptr`  *)
(* points to (as many cells as the allocator was asked for); `wild` holds  *)
(* what was written past the end of that block.  Uninit is the content of  *)
(* freshly allocated memory and Garbage the content of memory the buffer   *)
(* does not own: a read of either may produce any value.                   *)
(***************************************************************************)
EXTENDS Integers, Sequences, FiniteSets, TLC

VARIABLES
    st,        \* lifecycle: "none", "mutable", "frozen", "released"
    size,      \* size_of::<T>() of the buffer's element type
    ptr,       \* MutableBuffer.ptr: 0 is the dangling pointer, else a block id
    len,       \* MutableBuffer.len
    capacity,  \* MutableBuffer.capacity
    mem,       \* cells of the block ptr points to
    wild,      \* cells written past the end of that block
    heap,      \* allocator: block id -> [cap, frees]
    ub,        \* an operation wrote outside its block or broke the allocator's contract
    bytes,     \* the Bytes made by freezing: [ptr, len, dealloc], or NoBytes
    holders,   \* number of live holders (clones) of the immutable buffer
    op,        \* the last operation and its arguments
    pre,       \* the buffer as it was before the last operation
    steps,     \* number of mutating operations applied so far
    input,     \* the sequence handed to the bulk constructors
    trusted,   \* outcome of from_trusted_len_iter on input
    generic,   \* outcome of FromIterator<T>::from_iter on input
    fallible,  \* outcome of try_from_trusted_len_iter on input
    bits,      \* the boolean sequence handed to FromIterator<bool>
    packed     \* outcome of FromIterator<bool>::from_iter on bits

vars == <<st, size, ptr, len, capacity, mem, wild, heap, ub, bytes, holders,
          op, pre, steps, input, trusted, generic, fallible, bits, packed>>

bufVars == <<st, size, ptr, len, capacity, mem, wild, heap, ub, bytes, holders,
             op, pre, steps>>

ctorVars == <<input, trusted, generic, fallible>>

bitVars == <<bits, packed>>

----------------------------------------------------------------------------
(* Bounds of the model *)

\* element values are 0..MaxVal; 0 is the zero value of the element type
MaxVal == 2
\* length of a short slice, a small amount
MaxSmall == 3
\* a long slice or a large amount: more elements than one 64-byte line of u8
Big == 65
\* number of mutating operations applied to one buffer
MaxOps == 2
\* number of simultaneous holders of one immutable buffer
MaxHolders == 2
\* longest boolean sequence that is bit-packed
MaxBits == 9

Vals == 0..MaxVal

\* size_of::<T>() of the native types: u8, u16, u32, u64, i128
Sizes == {1, 2, 4, 8, 16}

\* the content of memory that was allocated and never written: no element value
Uninit == -1

\* the content of memory outside the buffer's block: no element value
Garbage == -2

NoBytes == [ptr |-> 0, len |-> 0, dealloc |-> "none", cap |-> 0]

NoOp == [name |-> "none"]

Amounts == {0, 1, MaxSmall, Big}

\* a sequence of k element values that differ from index to index
Pattern(k, v) == [i \in 1..k |-> (v + i - 1) % (MaxVal + 1)]

Min(a, b) == IF a <= b THEN a ELSE b

Max(a, b) == IF a >= b THEN a ELSE b

Fill(k, v) == [i \in 1..k |-> v]

----------------------------------------------------------------------------
(* util and alloc: the collaborators of the growable buffer *)

\* util::round_upto_multiple_of_64
round_upto_multiple_of_64(num) == ((num + 63) \div 64) * 64

\* capacity_multiple_of_64 without the rounding
capacity_not_rounded(sz, cap) == cap

\* capacity_multiple_of_64::<T>
capacity_multiple_of_64(sz, cap) == round_upto_multiple_of_64(cap * sz) \div sz

\* What a write outside the block does: the value stays in the cell it hits
\* ("kept"), something else overwrites the cell ("clobbered"), or the write
\* hits unmapped memory and the process is killed ("fault").
Fates == {"kept", "clobbered", "fault"}

\* A buffer under construction or mutation, with the allocator it uses and
\* the fate of its writes outside the block.
Machine(sz, hp, f) ==
    [size |-> sz, ptr |-> 0, len |-> 0, capacity |-> 0, mem |-> <<>>,
     wild |-> <<>>, heap |-> hp, ub |-> FALSE, fate |-> f]

\* alloc::allocate_aligned / alloc::allocate_aligned_zeroed: n elements whose
\* cells hold `cell`; no block (the dangling pointer) for n = 0
Allocate(m, n, cell) ==
    IF n = 0
    THEN [m EXCEPT !.ptr = 0, !.mem = <<>>, !.wild = <<>>]
    ELSE [m EXCEPT !.heap = Append(m.heap, [cap |-> n, frees |-> 0, passed |-> 0]),
                   !.ptr = Len(m.heap) + 1,
                   !.mem = Fill(n, cell),
                   !.wild = <<>>]

\* alloc::free_aligned(ptr, capacity): releases the block; its contract is
\* broken when the block is not live or was not allocated with that capacity.
\* A block records the capacity it was allocated with (cap), how often it was
\* released (frees) and the capacity passed at its last release (passed).
FreeAligned(m, p, cap) ==
    IF cap = 0
    THEN m
    ELSE IF p \in 1..Len(m.heap)
         THEN [m EXCEPT !.heap[p].frees = @ + 1,
                        !.heap[p].passed = cap,
                        !.ub = m.ub \/ m.heap[p].frees # 0 \/ m.heap[p].cap # cap]
         ELSE [m EXCEPT !.ub = TRUE]

\* alloc::reallocate(ptr, old_capacity, new_capacity): a block of new_capacity
\* elements that keeps the first min(old, new) elements of the old one.  The
\* old block is given back to the allocator and the result is a new block
\* (whether the allocator moved it or grew it in place is not observable).
AllocReallocate(m, p, old_capacity, new_capacity) ==
    IF old_capacity = 0
    THEN Allocate(m, new_capacity, Uninit)
    ELSE IF new_capacity = 0
    THEN [FreeAligned(m, p, old_capacity) EXCEPT !.ptr = 0, !.mem = <<>>, !.wild = <<>>]
    ELSE LET released == FreeAligned(m, p, old_capacity)
             keep == Min(Min(old_capacity, new_capacity), Len(m.mem))
         IN [released EXCEPT
                !.heap = Append(released.heap, [cap |-> new_capacity, frees |-> 0, passed |-> 0]),
                !.ptr = Len(released.heap) + 1,
                !.mem = [i \in 1..new_capacity |->
                            IF i <= keep THEN m.mem[i] ELSE Uninit],
                !.wild = <<>>]

\* std::ptr::write(ptr.add(i), v), i counted from 0: inside the block the cell
\* takes v; outside it the write is undefined behaviour
WriteAt(m, i, v) ==
    IF i < Len(m.mem)
    THEN [m EXCEPT !.mem[i + 1] = v]
    ELSE LET j == i - Len(m.mem) + 1
             w == IF m.fate = "kept" THEN v ELSE Garbage
         IN [m EXCEPT !.ub = TRUE,
                      !.wild = [k \in 1..Max(j, Len(m.wild)) |->
                                   IF k = j THEN w
                                   ELSE IF k <= Len(m.wild) THEN m.wild[k]
                                   ELSE Garbage]]

\* the cell at index i (from 0) of the memory ptr points to
CellAt(memv, wildv, i) ==
    IF i < Len(memv) THEN memv[i + 1]
    ELSE IF i - Len(memv) < Len(wildv) THEN wildv[i - Len(memv) + 1]
    ELSE Garbage

\* Deref: std::slice::from_raw_parts(ptr, len)
Slice(memv, wildv, n) == [i \in 1..n |-> CellAt(memv, wildv, i - 1)]

----------------------------------------------------------------------------
(* MutableBuffer<T> *)

\* MutableBuffer::new
New(m) == [Allocate(m, 0, Uninit) EXCEPT !.len = 0, !.capacity = 0]

\* MutableBuffer::with_capacity(capacity)
WithCapacity(m, cap) ==
    LET c == round_upto_multiple_of_64(cap \div m.size)
    IN [Allocate(m, c, Uninit) EXCEPT !.len = 0, !.capacity = c]

\* from_len_zeroed through allocate_aligned instead of allocate_aligned_zeroed
FromLenNotZeroed(m, n) ==
    LET new_capacity == capacity_multiple_of_64(m.size, n)
    IN [Allocate(m, new_capacity, Uninit) EXCEPT !.len = n, !.capacity = new_capacity]

\* MutableBuffer::from_len_zeroed(len)
FromLenZeroed(m, n) ==
    LET new_capacity == capacity_multiple_of_64(m.size, n)
    IN [Allocate(m, new_capacity, 0) EXCEPT !.len = n, !.capacity = new_capacity]

\* reallocate that only doubles, without the floor of the required capacity
ReallocateDoubleOnly(m, old_capacity, required_cap) ==
    LET new_capacity == old_capacity * 2
    IN [AllocReallocate(m, m.ptr, old_capacity, new_capacity)
            EXCEPT !.capacity = new_capacity]

\* reallocate without the doubling: the rounded request only
ReallocateRoundedOnly(m, old_capacity, required_cap) ==
    LET new_capacity == capacity_multiple_of_64(m.size, required_cap)
    IN [AllocReallocate(m, m.ptr, old_capacity, new_capacity)
            EXCEPT !.capacity = new_capacity]

\* reallocate(ptr, old_capacity, new_capacity): the buffer's growth policy
Reallocate(m, old_capacity, required_cap) ==
    LET rounded == capacity_multiple_of_64(m.size, required_cap)
        new_capacity == Max(rounded, old_capacity * 2)
    IN [AllocReallocate(m, m.ptr, old_capacity, new_capacity)
            EXCEPT !.capacity = new_capacity]

\* reserve with an off-by-one test: a full buffer is not grown
ReserveOffByOne(m, additional) ==
    LET required_cap == m.len + additional
    IN IF required_cap > m.capacity + 1
       THEN Reallocate(m, m.capacity, required_cap)
       ELSE m

\* reserve that takes the new pointer and keeps the old capacity field
ReserveKeepsCapacity(m, additional) ==
    LET required_cap == m.len + additional
    IN IF required_cap > m.capacity
       THEN [Reallocate(m, m.capacity, required_cap) EXCEPT !.capacity = m.capacity]
       ELSE m

\* MutableBuffer::reserve(additional); the amounts of the model are far from
\* usize::MAX, so len + additional does not wrap
Reserve(m, additional) ==
    LET required_cap == m.len + additional
    IN IF required_cap > m.capacity
       THEN Reallocate(m, m.capacity, required_cap)
       ELSE m

\* a loop that writes through a moving pointer: the buffer m, the pointer dst
\* (an offset from m.ptr, in elements) and the items still to write
Writer(m, dst, items) == [m |-> m, dst |-> dst, iter |-> items]

\* for item in iterator { std::ptr::write(dst, item); dst = dst.add(1) }
RECURSIVE WriteLoop(_)
WriteLoop(w) ==
    IF w.iter = <<>> THEN w
    ELSE WriteLoop(Writer(WriteAt(w.m, w.dst, Head(w.iter)), w.dst + 1, Tail(w.iter)))

\* resize that grows without writing the value into the new elements
ResizeNoFill(m, new_len, value) ==
    LET grown == IF new_len > m.len THEN Reserve(m, new_len - m.len) ELSE m
    IN [grown EXCEPT !.len = new_len]

\* resize that gives the unused capacity back when it shrinks
ResizeShrinking(m, new_len, value) ==
    IF new_len > m.len
    THEN LET diff == new_len - m.len
             r == Reserve(m, diff)
         IN [WriteLoop(Writer(r, r.len, Fill(diff, value))).m EXCEPT !.len = new_len]
    ELSE LET c == capacity_multiple_of_64(m.size, new_len)
         IN [AllocReallocate(m, m.ptr, m.capacity, c)
                EXCEPT !.capacity = c, !.len = new_len]

\* MutableBuffer::resize(new_len, value)
Resize(m, new_len, value) ==
    LET grown == IF new_len > m.len
                 THEN LET diff == new_len - m.len
                          r == Reserve(m, diff)
                      IN WriteLoop(Writer(r, r.len, Fill(diff, value))).m
                 ELSE m
    IN [grown EXCEPT !.len = new_len]

\* MutableBuffer::clear
Clear(m) == [m EXCEPT !.len = 0]

\* std::ptr::copy_nonoverlapping(src, dst, count) with dst = ptr.add(at)
CopyNonOverlapping(m, at, items) == WriteLoop(Writer(m, at, items)).m

\* extend_from_slice that copies to ptr instead of ptr.add(len)
ExtendFromSliceAtStart(m, items) ==
    LET additional == Len(items)
        r == Reserve(m, additional)
        w == CopyNonOverlapping(r, 0, items)
    IN [w EXCEPT !.len = r.len + additional]

\* MutableBuffer::extend_from_slice(items)
ExtendFromSlice(m, items) ==
    LET additional == Len(items)
        r == Reserve(m, additional)
        w == CopyNonOverlapping(r, r.len, items)
    IN [w EXCEPT !.len = r.len + additional]

\* MutableBuffer::push_unchecked(item)
PushUnchecked(m, item) == [WriteAt(m, m.len, item) EXCEPT !.len = m.len + 1]

\* push that writes one element past the end
PushOffByOne(m, item) ==
    LET r == Reserve(m, 1)
    IN [WriteAt(r, r.len + 1, item) EXCEPT !.len = r.len + 1]

\* MutableBuffer::push(item)
Push(m, item) ==
    LET r == Reserve(m, 1)
    IN [WriteAt(r, r.len, item) EXCEPT !.len = r.len + 1]

\* Iterator::size_hint().0 of a sequence with r items left: the lower bound a
\* sequence reports is none ("zero"), short ("half") or exact ("exact")
HintModes == {"zero", "half", "exact"}

Lower(mode, r) ==
    IF mode = "zero" THEN 0
    ELSE IF mode = "half" THEN r \div 2
    ELSE r

\* the fast loop of extend_from_iter: writes while local_len + 1 <= capacity
\* and the iterator yields; local_len is SetLenOnDrop.local_len
RECURSIVE FastLoop(_)
FastLoop(f) ==
    IF f.local_len + 1 <= f.m.capacity /\ f.iter # <<>>
    THEN FastLoop([m |-> WriteAt(f.m, f.local_len, Head(f.iter)),
                   local_len |-> f.local_len + 1,
                   iter |-> Tail(f.iter)])
    ELSE f

\* iterator.for_each(|item| self.push(item))
RECURSIVE PushEach(_)
PushEach(f) ==
    IF f.iter = <<>> THEN f
    ELSE PushEach([m |-> Push(f.m, Head(f.iter)), iter |-> Tail(f.iter)])

\* a SetLenOnDrop whose drop does not write the local length back
SetLenForgotten(m, local_len) == m

\* Drop for SetLenOnDrop: commits the local length
SetLenOnDrop(m, local_len) == [m EXCEPT !.len = local_len]

\* extend_from_iter without the push of what the fast loop left
ExtendFromIterNoFallback(m, items, mode) ==
    LET additional == Lower(mode, Len(items))
        r == Reserve(m, additional)
        fast == FastLoop([m |-> r, local_len |-> r.len, iter |-> items])
    IN SetLenOnDrop(fast.m, fast.local_len)

\* MutableBuffer::extend_from_iter(iterator) (and Extend::extend)
ExtendFromIter(m, items, mode) ==
    LET additional == Lower(mode, Len(items))
        r == Reserve(m, additional)
        fast == FastLoop([m |-> r, local_len |-> r.len, iter |-> items])
        committed == SetLenOnDrop(fast.m, fast.local_len)
    IN PushEach([m |-> committed, iter |-> fast.iter]).m

\* extend_from_iter(iterator) when iterator.next() panics instead of yielding
\* items[k + 1].  In the fast loop ("fast") the unwinding drops the
\* SetLenOnDrop, which commits the local length; a fast loop that ran out of
\* capacity first has committed already, and the panic comes out of for_each
\* after the pushes of the items before it ("slow").
ExtendPanicking(m, items, mode, k) ==
    LET additional == Lower(mode, Len(items))
        r == Reserve(m, additional)
        fast == FastLoop([m |-> r, local_len |-> r.len, iter |-> SubSeq(items, 1, k)])
        committed == SetLenOnDrop(fast.m, fast.local_len)
    IN IF fast.iter = <<>> /\ fast.local_len + 1 <= fast.m.capacity
       THEN [m |-> committed, region |-> "fast"]
       ELSE [m |-> PushEach([m |-> committed, iter |-> fast.iter]).m,
             region |-> "slow"]

\* Drop for MutableBuffer
DropBuffer(m) == FreeAligned(m, m.ptr, m.capacity)

----------------------------------------------------------------------------
(* Bytes<T> / Buffer<T>: the immutable, shared form *)

\* Bytes::new(ptr, len, Deallocation::Native(capacity))
BytesNew(p, n, cap) == [ptr |-> p, len |-> n, dealloc |-> "Native", cap |-> cap]

\* the conversion recording the length where the capacity belongs
IntoBytesLenAsCapacity(m) ==
    [bytes |-> BytesNew(m.ptr, m.len, m.len), m |-> m]

\* the conversion without std::mem::forget: Drop for MutableBuffer runs
IntoBytesNoForget(m) ==
    [bytes |-> BytesNew(m.ptr, m.len, m.capacity), m |-> DropBuffer(m)]

\* From<MutableBuffer<T>> for Bytes<T>: the buffer's fields move into the Bytes
\* and std::mem::forget keeps Drop for MutableBuffer from running
IntoBytes(m) ==
    [bytes |-> BytesNew(m.ptr, m.len, m.capacity), m |-> m]

\* Drop for Bytes with Deallocation::Native(capacity)
DropBytes(m, b) == FreeAligned(m, b.ptr, b.cap)

----------------------------------------------------------------------------
(* The life of one buffer *)

\* the slices and sequences handed to the bulk operations
Items == {Pattern(k, 1) : k \in Amounts}

Cur ==
    [size |-> size, ptr |-> ptr, len |-> len, capacity |-> capacity, mem |-> mem,
     wild |-> wild, heap |-> heap, ub |-> ub, fate |-> "kept"]

Snapshot ==
    [len |-> len, capacity |-> capacity, ptr |-> ptr, mem |-> mem, heap |-> heap,
     holders |-> holders, op |-> op]

Install(m) ==
    /\ ptr' = m.ptr
    /\ len' = m.len
    /\ capacity' = m.capacity
    /\ mem' = m.mem
    /\ wild' = m.wild
    /\ heap' = m.heap
    /\ ub' = m.ub

BufInit ==
    /\ st = "none"
    /\ size = 1
    /\ ptr = 0
    /\ len = 0
    /\ capacity = 0
    /\ mem = <<>>
    /\ wild = <<>>
    /\ heap = <<>>
    /\ ub = FALSE
    /\ bytes = NoBytes
    /\ holders = 0
    /\ op = NoOp
    /\ pre = [len |-> 0, capacity |-> 0, ptr |-> 0, mem |-> <<>>, heap |-> <<>>,
              holders |-> 0, op |-> NoOp]
    /\ steps = 0

NoInput ==
    [size |-> 1, items |-> <<>>, fails |-> {}, upper |-> 0, mode |-> "exact",
     fate |-> "kept"]

NoBits == [items |-> <<>>, mode |-> "exact"]

NotRun == [outcome |-> "none"]

Init ==
    /\ BufInit
    /\ input = NoInput
    /\ trusted = NotRun
    /\ generic = NotRun
    /\ fallible = NotRun
    /\ bits = NoBits
    /\ packed = NotRun

Construct(sz, m, o) ==
    /\ st = "none"
    /\ st' = "mutable"
    /\ size' = sz
    /\ Install(m)
    /\ op' = o
    /\ pre' = Snapshot
    /\ UNCHANGED <<bytes, holders, steps, input, trusted, generic, fallible, bits, packed>>

CtorNew ==
    \E sz \in Sizes :
        Construct(sz, New(Machine(sz, heap, "kept")), [name |-> "new"])

CtorWithCapacity ==
    \E sz \in Sizes, h \in Amounts :
        Construct(sz, WithCapacity(Machine(sz, heap, "kept"), h),
                  [name |-> "with_capacity", n |-> h])

CtorFromLenZeroed ==
    \E sz \in Sizes, n \in Amounts :
        Construct(sz, FromLenZeroed(Machine(sz, heap, "kept"), n),
                  [name |-> "from_len_zeroed", n |-> n])

Mutate(m, o) ==
    /\ st = "mutable"
    /\ steps < MaxOps
    /\ steps' = steps + 1
    /\ Install(m)
    /\ op' = o
    /\ pre' = Snapshot
    /\ UNCHANGED <<st, size, bytes, holders, input, trusted, generic, fallible, bits, packed>>

DoReserve ==
    \E a \in Amounts : Mutate(Reserve(Cur, a), [name |-> "reserve", n |-> a])

DoPush ==
    \E v \in 1..MaxVal : Mutate(Push(Cur, v), [name |-> "push", v |-> v])

DoExtendFromSlice ==
    \E items \in Items :
        Mutate(ExtendFromSlice(Cur, items),
               [name |-> "extend_from_slice", items |-> items])

DoExtend ==
    \E items \in Items, mode \in HintModes :
        Mutate(ExtendFromIter(Cur, items, mode),
               [name |-> "extend", items |-> items, mode |-> mode])

\* the numbers of items a sequence yields before it panics
PanicAt(items) == {0, 1, Len(items) - 1} \cap (0..(Len(items) - 1))

\* extend from a sequence that panics; the caller catches the unwinding or
\* lets it drop the buffer
DoExtendPanics ==
    \E items \in Items, mode \in HintModes :
        \E k \in PanicAt(items) :
            LET x == ExtendPanicking(Cur, items, mode, k)
            IN Mutate(x.m, [name |-> "extend_panic", items |-> items,
                            mode |-> mode, k |-> k, region |-> x.region])

DoResize ==
    \E n \in Amounts :
        Mutate(Resize(Cur, n, MaxVal),
               [name |-> "resize", n |-> n, v |-> MaxVal, from |-> len])

DoClear == Mutate(Clear(Cur), [name |-> "clear"])

\* the growable buffer goes out of scope: Drop for MutableBuffer
DoDrop ==
    /\ st = "mutable"
    /\ st' = "released"
    /\ Install(DropBuffer(Cur))
    /\ op' = [name |-> "drop"]
    /\ pre' = Snapshot
    /\ UNCHANGED <<size, bytes, holders, steps, input, trusted, generic, fallible, bits, packed>>

\* From<MutableBuffer<T>> for Buffer<T>: Buffer::from_bytes(buffer.into())
DoFreeze ==
    /\ st = "mutable"
    /\ st' = "frozen"
    /\ LET r == IntoBytes(Cur)
       IN /\ bytes' = r.bytes
          /\ Install(r.m)
    /\ holders' = 1
    /\ op' = [name |-> "freeze"]
    /\ pre' = Snapshot
    /\ UNCHANGED <<size, steps, input, trusted, generic, fallible, bits, packed>>

\* Clone for Buffer: one more holder of the same Bytes
DoClone ==
    /\ st = "frozen"
    /\ holders < MaxHolders
    /\ holders' = holders + 1
    /\ op' = [name |-> "clone"]
    /\ pre' = Snapshot
    /\ UNCHANGED <<st, size, ptr, len, capacity, mem, wild, heap, ub, bytes, steps,
                   input, trusted, generic, fallible, bits, packed>>

\* Drop for Buffer: the last holder to go drops the Bytes
DoDropHolder ==
    /\ st = "frozen"
    /\ holders > 0
    /\ holders' = holders - 1
    /\ IF holders = 1
       THEN /\ st' = "released"
            /\ heap' = DropBytes(Cur, bytes).heap
            /\ ub' = DropBytes(Cur, bytes).ub
       ELSE UNCHANGED <<st, heap, ub>>
    /\ op' = [name |-> "drop_holder"]
    /\ pre' = Snapshot
    /\ UNCHANGED <<size, ptr, len, capacity, mem, wild, bytes, steps,
                   input, trusted, generic, fallible, bits, packed>>

Next ==
    \/ CtorNew
    \/ CtorWithCapacity
    \/ CtorFromLenZeroed
    \/ DoReserve
    \/ DoPush
    \/ DoExtendFromSlice
    \/ DoExtend
    \/ DoResize
    \/ DoClear
    \/ DoDrop
    \/ DoFreeze
    \/ DoClone
    \/ DoDropHolder

Spec == Init /\ [][Next]_vars

\* the life of a buffer whose extend is given sequences that panic: the buffer
\* is made, filled, extended by a sequence that panics part-way, and dropped
NextUnwind ==
    \/ CtorNew
    \/ CtorWithCapacity
    \/ CtorFromLenZeroed
    \/ DoExtendFromSlice
    \/ DoExtendPanics
    \/ DoDrop

SpecUnwind == Init /\ [][NextUnwind]_vars

----------------------------------------------------------------------------
(* The bulk constructors, each applied to one input sequence *)

\* the outcome of a constructor: the buffer it returns ("ok"), a panic that
\* unwinds and drops the buffer ("panic"), or the process killed by a write
\* to unmapped memory ("fault")
Outcome(m, o) ==
    [outcome |-> IF m.ub /\ m.fate = "fault" THEN "fault" ELSE o, m |-> m]

\* from_trusted_len_iter without the assert_eq! that follows the loop
FromTrustedLenIterUnchecked(m0, items, upper) ==
    LET buffer == WithCapacity(m0, upper)
        w == WriteLoop(Writer(buffer, 0, items))
    IN Outcome([w.m EXCEPT !.len = upper], "ok")

\* MutableBuffer::from_trusted_len_iter(iterator), size_hint().1 = Some(upper)
FromTrustedLenIter(m0, items, upper) ==
    LET buffer == WithCapacity(m0, upper)
        w == WriteLoop(Writer(buffer, 0, items))
    IN IF w.dst = upper
       THEN Outcome([w.m EXCEPT !.len = upper], "ok")
       ELSE Outcome(DropBuffer(w.m), "panic")

\* the loop of try_from_trusted_len_iter: next is the position of the item the
\* iterator yields next, err the position of the item whose `?` returned
TryWriter(m, dst, next, err) == [m |-> m, dst |-> dst, next |-> next, err |-> err]

\* for item in iterator { std::ptr::write(dst, item?); dst = dst.add(1) }
\* over the items Ok(items[i]), i \notin fails, and Err(i), i \in fails
RECURSIVE TryLoop(_, _, _)
TryLoop(w, items, fails) ==
    IF w.next > Len(items) THEN w
    ELSE IF w.next \in fails THEN TryWriter(w.m, w.dst, w.next + 1, w.next)
    ELSE TryLoop(TryWriter(WriteAt(w.m, w.dst, items[w.next]), w.dst + 1,
                           w.next + 1, 0),
                 items, fails)

\* the result of the fallible constructor: Outcome, the number of items taken
\* from the iterator and the position of the item whose error is returned
TryOutcome(m, o, w) ==
    [outcome |-> Outcome(m, o).outcome, m |-> m, consumed |-> w.next - 1,
     error |-> w.err]

\* MutableBuffer::try_from_trusted_len_iter(iterator)
TryFromTrustedLenIter(m0, items, fails, upper) ==
    LET buffer == WithCapacity(m0, upper)
        w == TryLoop(TryWriter(buffer, 0, 1, 0), items, fails)
    IN IF w.err # 0
       THEN TryOutcome(DropBuffer(w.m), "err", w)
       ELSE IF w.dst = upper
       THEN TryOutcome([w.m EXCEPT !.len = upper], "ok", w)
       ELSE TryOutcome(DropBuffer(w.m), "panic", w)

\* FromIterator<T> for MutableBuffer<T>: from_iter(iter); the size hint is
\* asked of the iterator after its first item was taken, and
\* lower.saturating_add(1) does not saturate for the lengths of the model
FromIter(m0, items, mode) ==
    IF items = <<>>
    THEN Outcome(ExtendFromIter(New(m0), <<>>, mode), "ok")
    ELSE LET iterator == Tail(items)
             lower == Lower(mode, Len(iterator))
             buffer == WithCapacity(m0, lower + 1)
             first == [WriteAt(buffer, 0, Head(items)) EXCEPT !.len = 1]
         IN Outcome(ExtendFromIter(first, iterator, mode), "ok")

CtorLens == (0..MaxSmall) \cup {Big}

\* the positions of the failing items of a sequence of k results
Fails(k) == SUBSET ({1, 2, k} \cap (1..k))

CtorInputs ==
    {[size |-> sz, items |-> Pattern(k, 1), fails |-> fl, upper |-> u,
      mode |-> md, fate |-> f] :
        sz \in Sizes, k \in CtorLens, fl \in Fails(MaxSmall) \cup Fails(Big),
        u \in CtorLens, md \in HintModes, f \in Fates}

InitCtor ==
    /\ BufInit
    /\ input \in {i \in CtorInputs :
                    /\ i.upper \in {Len(i.items) - 1, Len(i.items), Len(i.items) + 1}
                    /\ i.fails \in Fails(Len(i.items))}
    /\ trusted = NotRun
    /\ generic = NotRun
    /\ fallible = NotRun
    /\ bits = NoBits
    /\ packed = NotRun

RunTrusted ==
    /\ trusted = NotRun
    /\ trusted' = FromTrustedLenIter(Machine(input.size, <<>>, input.fate),
                                     input.items, input.upper)
    /\ UNCHANGED <<bufVars, input, generic, fallible, bits, packed>>

RunGeneric ==
    /\ generic = NotRun
    /\ generic' = FromIter(Machine(input.size, <<>>, input.fate),
                           input.items, input.mode)
    /\ UNCHANGED <<bufVars, input, trusted, fallible, bits, packed>>

RunFallible ==
    /\ fallible = NotRun
    /\ fallible' = TryFromTrustedLenIter(Machine(input.size, <<>>, input.fate),
                                         input.items, input.fails, input.upper)
    /\ UNCHANGED <<bufVars, input, trusted, generic, bits, packed>>

NextCtor == RunTrusted \/ RunGeneric \/ RunFallible

SpecCtor == InitCtor /\ [][NextCtor]_vars

----------------------------------------------------------------------------
(* Bit-packing: FromIterator<bool> for MutableBuffer<u8> *)

\* the inner loop with a mask that starts at the most significant bit
RECURSIVE CollectMsbFirst(_)
CollectMsbFirst(c) ==
    IF c.mask # 0
    THEN IF c.iter # <<>>
         THEN CollectMsbFirst(
                  [byte_accum |-> c.byte_accum
                                    + (IF Head(c.iter) THEN 128 \div c.mask ELSE 0),
                   mask |-> (c.mask * 2) % 256,
                   iter |-> Tail(c.iter),
                   exhausted |-> FALSE])
         ELSE [c EXCEPT !.exhausted = TRUE]
    ELSE c

\* the inner loop: collects up to 8 bits into byte_accum, least significant
\* first; mask is a u8, so the eighth shift leaves 0
RECURSIVE Collect(_)
Collect(c) ==
    IF c.mask # 0
    THEN IF c.iter # <<>>
         THEN Collect([byte_accum |-> c.byte_accum + (IF Head(c.iter) THEN c.mask ELSE 0),
                       mask |-> (c.mask * 2) % 256,
                       iter |-> Tail(c.iter),
                       exhausted |-> FALSE])
         ELSE [c EXCEPT !.exhausted = TRUE]
    ELSE c

\* the outer loop: one byte per turn
RECURSIVE PackLoop(_, _)
PackLoop(f, mode) ==
    LET c == Collect([byte_accum |-> 0, mask |-> 1, iter |-> f.iter, exhausted |-> FALSE])
    IN IF c.exhausted /\ c.mask = 1
       THEN f.m
       ELSE LET additional_byte_capacity == 1 + ((Lower(mode, Len(c.iter)) + 7) \div 8)
                result == IF f.m.len = f.m.capacity
                          THEN Reserve(f.m, additional_byte_capacity)
                          ELSE f.m
                pushed == PushUnchecked(result, c.byte_accum)
            IN IF c.exhausted
               THEN pushed
               ELSE PackLoop([m |-> pushed, iter |-> c.iter], mode)

\* from_iter(iter) for a sequence of booleans
FromIterBool(m0, items, mode) ==
    LET byte_capacity == (Lower(mode, Len(items)) + 7) \div 8
        result == WithCapacity(m0, byte_capacity)
    IN Outcome(PackLoop([m |-> result, iter |-> items], mode), "ok")

RECURSIVE BoolSeqs(_)
BoolSeqs(n) ==
    IF n = 0 THEN {<<>>}
    ELSE LET shorter == BoolSeqs(n - 1)
         IN shorter \cup {Append(q, b) : q \in {r \in shorter : Len(r) = n - 1},
                                         b \in BOOLEAN}

InitBits ==
    /\ BufInit
    /\ input = NoInput
    /\ trusted = NotRun
    /\ generic = NotRun
    /\ fallible = NotRun
    /\ bits \in [items : BoolSeqs(MaxBits), mode : HintModes]
    /\ packed = NotRun

RunPacked ==
    /\ packed = NotRun
    /\ packed' = FromIterBool(Machine(1, <<>>, "kept"), bits.items, bits.mode)
    /\ UNCHANGED <<bufVars, input, trusted, generic, fallible, bits>>

NextBits == RunPacked

SpecBits == InitBits /\ [][NextBits]_vars

----------------------------------------------------------------------------
(* Properties *)

\* the elements the buffer exposes now, and those it exposed before the last
\* operation
Contents == Slice(mem, wild, len)

PreContents == Slice(pre.mem, <<>>, pre.len)

Initialized(seq) == \A i \in 1..Len(seq) : seq[i] \in Vals

\* C1: after every operation of a buffer made by new, with_capacity or
\* from_len_zeroed, the length is at most the capacity (and the capacity is
\* the size of the block the pointer holds).
C1_LenWithinCapacity ==
    st # "none" => len <= capacity /\ capacity = Len(mem)

\* an operation needed more room than the buffer had, and got it
C1_Witness ==
    /\ st = "mutable"
    /\ steps = MaxOps
    /\ op.name \in {"push", "extend", "extend_from_slice", "resize"}
    /\ pre.len > 0
    /\ len > pre.capacity

\* C2: the byte size of every allocation, capacity * element size, is a
\* multiple of 64.
C2_AllocationMultipleOf64 ==
    /\ (capacity * size) % 64 = 0
    /\ \A b \in 1..Len(heap) : (heap[b].cap * size) % 64 = 0

\* a buffer of each element size has grown from one block into a larger one
C2_Witness ==
    /\ st = "mutable"
    /\ size = 16
    /\ pre.capacity > 0
    /\ capacity > pre.capacity
    /\ capacity * size > 64

C4_FreezeIsZeroCopy ==
    op.name = "freeze" =>
        /\ bytes.ptr = pre.ptr
        /\ bytes.len = pre.len
        /\ bytes.dealloc = "Native"
        /\ bytes.cap = pre.capacity
        /\ Slice(mem, wild, bytes.len) = PreContents
        /\ mem = pre.mem
        /\ heap = pre.heap

\* a buffer that holds elements and spare capacity is frozen
C4_Witness ==
    /\ op.name = "freeze"
    /\ bytes.len > 0
    /\ bytes.len < bytes.cap
    /\ Len(heap) > 1

\* C5: every block is freed at most once, never while the growable buffer or
\* a holder of the immutable buffer still uses it, and always once the buffer
\* or the last holder is gone.
C5_FreedExactlyOnce ==
    /\ ~ub
    /\ \A b \in 1..Len(heap) : heap[b].frees <= 1
    /\ st \in {"mutable", "frozen"} =>
          \A b \in 1..Len(heap) : heap[b].frees = (IF b = ptr THEN 0 ELSE 1)
    /\ st = "frozen" => holders > 0 /\ bytes.ptr = ptr
    /\ st = "released" => \A b \in 1..Len(heap) : heap[b].frees = 1

\* a buffer that reallocated was frozen and cloned, and its last holder is gone
C5_Witness ==
    /\ st = "released"
    /\ op.name = "drop_holder"
    /\ Len(heap) > 1
    /\ bytes.len > 0

\* C6: from_trusted_len_iter on a sequence that yields exactly its declared
\* upper bound n writes inside its allocation and returns a buffer of length n
\* with length <= capacity, for element sizes 1, 2, 4 and 8.
C6_TrustedWritesInBounds ==
    (/\ trusted # NotRun
     /\ input.upper = Len(input.items)
     /\ input.size \in {1, 2, 4, 8}) =>
        /\ trusted.outcome = "ok"
        /\ ~trusted.m.ub
        /\ trusted.m.len = Len(input.items)
        /\ trusted.m.len <= trusted.m.capacity

\* C7: for a sequence whose declared upper bound is exact, the trusted-length
\* path and the generic path build buffers of the same length with the same
\* elements in the same order.
C7_TrustedEqualsGeneric ==
    (/\ trusted.outcome = "ok"
     /\ generic.outcome = "ok"
     /\ input.upper = Len(input.items)) =>
        /\ trusted.m.len = generic.m.len
        /\ Slice(trusted.m.mem, trusted.m.wild, trusted.m.len)
              = Slice(generic.m.mem, generic.m.wild, generic.m.len)

\* bit i of a byte
Bit(byte, i) == (byte \div (2 ^ i)) % 2

\* C8: a boolean sequence of n values packs into exactly ceil(n / 8) bytes,
\* bit i of byte j set iff value 8j + i exists and is true, whatever lower
\* bound the sequence reports.
C8_BitPacking ==
    packed # NotRun =>
        LET n == Len(bits.items)
            m == packed.m
        IN /\ packed.outcome = "ok"
           /\ ~m.ub
           /\ m.len = (n + 7) \div 8
           /\ m.len <= m.capacity
           /\ \A j \in 0..(m.len - 1) : \A i \in 0..7 :
                 /\ m.mem[j + 1] \in 0..255
                 /\ Bit(m.mem[j + 1], i) = 1 <=>
                       (8 * j + i < n /\ bits.items[8 * j + i + 1])

\* the nine values of the specification's example, packed into 13 and 1
C8_Witness ==
    /\ packed # NotRun
    /\ bits.mode = "zero"
    /\ bits.items = <<TRUE, FALSE, TRUE, TRUE, FALSE, FALSE, FALSE, FALSE, TRUE>>
    /\ packed.m.len = 2
    /\ packed.m.mem[1] = 13
    /\ packed.m.mem[2] = 1

\* C9: reserve(additional) changes neither the length nor the first `length`
\* elements, and leaves capacity >= length + additional.
C9_ReservePreservesContents ==
    op.name = "reserve" =>
        /\ len = pre.len
        /\ Contents = PreContents
        /\ Initialized(Contents)
        /\ capacity >= len + op.n
        /\ capacity = Len(mem)

\* reserve moved a buffer holding three or more non-zero-patterned elements
C9_Witness ==
    /\ op.name = "reserve"
    /\ pre.ptr # 0
    /\ ptr # pre.ptr
    /\ len >= 3
    /\ \E i \in 1..len : mem[i] # 0

\* C10: from_len_zeroed(len) returns a buffer of length len and capacity >=
\* len whose every element reads as zero.
C10_FromLenZeroed ==
    op.name = "from_len_zeroed" =>
        /\ len = op.n
        /\ capacity >= op.n
        /\ capacity = Len(mem)
        /\ \A i \in 1..len : Contents[i] = 0

\* a zeroed buffer longer than one 64-byte line
C10_Witness ==
    /\ op.name = "from_len_zeroed"
    /\ len = Big
    /\ size > 1
    /\ mem[len] = 0

\* the first of a non-empty set of positions
First(fl) == CHOOSE i \in fl : \A j \in fl : i <= j

\* C11: on a sequence of results whose declared upper bound is exact,
\* try_from_trusted_len_iter returns the error of the first failing item,
\* takes no item after it, returns no buffer and frees the partially filled
\* allocation exactly once; when no item fails it returns a buffer holding
\* all the items in order.
C11_FallibleConstructor ==
    (/\ fallible # NotRun
     /\ input.upper = Len(input.items)) =>
        IF input.fails # {}
        THEN /\ fallible.outcome = "err"
             /\ fallible.error = First(input.fails)
             /\ fallible.consumed = First(input.fails)
             /\ \A b \in 1..Len(fallible.m.heap) : fallible.m.heap[b].frees = 1
        ELSE /\ fallible.outcome = "ok"
             /\ fallible.m.len = Len(input.items)
             /\ Slice(fallible.m.mem, fallible.m.wild, fallible.m.len) = input.items

\* C12: when the sequence yields fewer or more elements than the upper bound
\* it declared, from_trusted_len_iter returns no buffer: the construction ends
\* in the panic of the consistency check that follows the loop.
C12_MismatchPanics ==
    (/\ trusted # NotRun
     /\ input.upper # Len(input.items)) =>
        trusted.outcome = "panic"

\* C12 (amended): when the sequence yields fewer or more elements than the
\* upper bound it declared, from_trusted_len_iter returns no buffer; when every
\* write of the loop landed inside the allocation the construction ends in the
\* panic of the consistency check, and the buffer is freed exactly once.
C12_MismatchNeverReturns ==
    (/\ trusted # NotRun
     /\ input.upper # Len(input.items)) =>
        /\ trusted.outcome # "ok"
        /\ ~trusted.m.ub =>
              /\ trusted.outcome = "panic"
              /\ \A b \in 1..Len(trusted.m.heap) : trusted.m.heap[b].frees = 1

\* a sequence that declared one element more than the two or more it yields:
\* the writes fit, the check panics and the block is freed
C12_Witness ==
    /\ trusted.outcome = "panic"
    /\ input.upper = Len(input.items) + 1
    /\ Len(input.items) >= 2
    /\ ~trusted.m.ub
    /\ Len(trusted.m.heap) = 1
    /\ trusted.m.heap[1].frees = 1

\* C13: with_capacity(h) returns a buffer of length 0 whose allocation,
\* capacity * element size bytes, is at least the hint h, for every h >= 0
\* and the element sizes 1, 2, 4 and 8.
C13_WithCapacityAtLeastHint ==
    (op.name = "with_capacity" /\ size \in {1, 2, 4, 8}) =>
        /\ len = 0
        /\ capacity * size >= op.n

\* C14: resize(new_len, fill) to a greater length sets the length to new_len,
\* writes fill into [old length, new_len) and keeps every element below the old
\* length; to a length not greater it changes only the length: the capacity,
\* the allocation and every stored value, those at indices >= new_len
\* included, are untouched.
C14_Resize ==
    op.name = "resize" =>
        /\ len = op.n
        /\ IF op.n > pre.len
           THEN /\ \A i \in 1..pre.len : Contents[i] = PreContents[i]
                /\ \A i \in (pre.len + 1)..op.n : Contents[i] = op.v
                /\ capacity >= op.n
           ELSE /\ capacity = pre.capacity
                /\ ptr = pre.ptr
                /\ mem = pre.mem
                /\ heap = pre.heap

\* a buffer grown by resize was shrunk by resize: the fill written by the
\* first call is still stored above the new length
C14_Witness ==
    /\ op.name = "resize"
    /\ pre.op.name = "resize"
    /\ op.n < pre.len
    /\ op.n > 0
    /\ mem[pre.len] = pre.op.v
    /\ pre.op.v # 0

\* resize to a smaller length n was followed by resize back to the length the
\* buffer had before
ShrunkThenRegrown ==
    /\ op.name = "resize"
    /\ pre.op.name = "resize"
    /\ pre.op.n < pre.op.from
    /\ op.n = pre.op.from

\* C15: after resize(n, _) with n < length and then resize(len_before, fill),
\* the elements below n hold their original values and the re-exposed slots
\* n..len_before read as the values written there before, not as the fill.
C15_RegrowExposesOldValues ==
    ShrunkThenRegrown =>
        /\ \A i \in 1..pre.op.n : Contents[i] = pre.mem[i]
        /\ \A i \in (pre.op.n + 1)..op.n : Contents[i] = pre.mem[i]

\* C15 (amended): after resize(n, _) with n < length and then
\* resize(len_before, fill), the elements below n hold their original values
\* and the re-exposed slots n..len_before read as the fill; the shrink freed
\* nothing, so the regrowth stays in the same allocation.
C15_RegrowWritesFill ==
    ShrunkThenRegrown =>
        /\ len = op.n
        /\ \A i \in 1..pre.op.n : Contents[i] = pre.mem[i]
        /\ \A i \in (pre.op.n + 1)..op.n : Contents[i] = op.v
        /\ ptr = pre.ptr
        /\ capacity = pre.capacity

\* a buffer of zeroes was shrunk to a non-zero length and regrown with a
\* non-zero fill: the slots given up held another value than the fill
C15_Witness ==
    /\ ShrunkThenRegrown
    /\ pre.op.n > 0
    /\ \A i \in (pre.op.n + 1)..op.n : pre.mem[i] \in Vals /\ pre.mem[i] # op.v
    /\ op.n - pre.op.n >= 2

RoundUp64(sz, n) ==
    CHOOSE c \in n..(n + 64) :
        /\ (c * sz) % 64 = 0
        /\ \A d \in n..(c - 1) : (d * sz) % 64 # 0

\* C17: reserve(additional) reallocates if and only if length + additional >
\* capacity.  With room, the capacity and the allocation are unchanged, so the
\* pushes that follow reserve(n), up to n of them, do not reallocate; without
\* room the new capacity is exactly the greater of length + additional rounded
\* up to a 64-byte multiple and twice the old capacity.
C17_ReservePolicy ==
    /\ op.name = "reserve" =>
          IF pre.len + op.n > pre.capacity
          THEN /\ capacity = Max(RoundUp64(size, pre.len + op.n), 2 * pre.capacity)
               /\ ptr # pre.ptr
               /\ Len(heap) = Len(pre.heap) + 1
          ELSE /\ capacity = pre.capacity
               /\ ptr = pre.ptr
               /\ heap = pre.heap
               /\ mem = pre.mem
    /\ (op.name = "push" /\ pre.op.name = "reserve" /\ pre.op.n >= 1) =>
          /\ ptr = pre.ptr
          /\ capacity = pre.capacity
          /\ heap = pre.heap

\* reserve on a buffer with a block: doubling gave more than the rounded
\* request
C17_Witness ==
    /\ op.name = "reserve"
    /\ pre.capacity > 0
    /\ pre.len + op.n > pre.capacity
    /\ capacity = 2 * pre.capacity
    /\ capacity > RoundUp64(size, pre.len + op.n)

\* C18: extend from a sequence of m elements onto a buffer of length L ends
\* with length L + m, the first L elements unchanged and the m elements
\* appended in order, whether the sequence reports a lower bound of 0, less
\* than m or m; what does not fit the region reserved from the lower bound is
\* appended by push.
C18_Extend ==
    op.name = "extend" =>
        /\ len = pre.len + Len(op.items)
        /\ Contents = PreContents \o op.items
        /\ len <= capacity

\* a sequence reporting half its length was appended to a non-empty buffer:
\* the fast loop filled the block and push replaced it
C18_Witness ==
    /\ op.name = "extend"
    /\ op.mode = "half"
    /\ Len(op.items) = Big
    /\ pre.len > 0
    /\ pre.capacity > 0
    /\ Len(heap) >= Len(pre.heap) + 2

\* C19: when the sequence given to extend panics while producing its
\* (k+1)-th element inside the fast loop, the local length is still committed:
\* the length is the old length + k, the elements below it are the old ones
\* followed by the k items written, all initialized, the length is at most
\* the capacity, and the drop that follows frees every block exactly once.
C19_PanicCommitsLength ==
    /\ (op.name = "extend_panic" /\ op.region = "fast") =>
          /\ len = pre.len + op.k
          /\ Contents = PreContents \o SubSeq(op.items, 1, op.k)
          /\ Initialized(Contents)
          /\ len <= capacity
    /\ (op.name = "drop" /\ pre.op.name = "extend_panic" /\ pre.op.region = "fast") =>
          /\ ~ub
          /\ \A b \in 1..Len(heap) : heap[b].frees = 1

\* a sequence panicked after the fast loop had written items behind the
\* elements the buffer held, and the buffer was dropped
C19_Witness ==
    /\ op.name = "drop"
    /\ pre.op.name = "extend_panic"
    /\ pre.op.region = "fast"
    /\ pre.op.k >= MaxSmall - 1
    /\ pre.len > pre.op.k
    /\ Len(heap) >= 1

\* C20: from_iter on a sequence of n elements returns a buffer of length n
\* holding the elements in order; every write, the first one included, lands
\* inside the allocation and the length never exceeds the capacity; for every
\* n >= 0, every lower bound the sequence reports and the element sizes 1, 2,
\* 4 and 8.
C20_FromIter ==
    (generic # NotRun /\ input.size \in {1, 2, 4, 8}) =>
        /\ generic.outcome = "ok"
        /\ ~generic.m.ub
        /\ generic.m.len = Len(input.items)
        /\ generic.m.len <= generic.m.capacity
        /\ Slice(generic.m.mem, generic.m.wild, generic.m.len) = input.items

\* C21: at every call to the allocator's reallocate or free the buffer passes
\* the capacity the block was allocated with, the deallocation recorded by the
\* conversion to the immutable form carries that capacity too, and the
\* capacity field is the capacity of the block the pointer holds after every
\* sequence of operations.
C21_CapacityMatchesBlock ==
    /\ ~ub
    /\ \A b \in 1..Len(heap) : heap[b].frees > 0 => heap[b].passed = heap[b].cap
    /\ st = "mutable" =>
          IF ptr = 0 THEN capacity = 0
          ELSE ptr = Len(heap) /\ heap[ptr].cap = capacity
    /\ st = "frozen" =>
          /\ bytes.dealloc = "Native"
          /\ IF bytes.ptr = 0 THEN bytes.cap = 0
             ELSE bytes.ptr = Len(heap) /\ heap[bytes.ptr].cap = bytes.cap

\* a buffer that reallocated twice was frozen with spare capacity and released
\* by its last holder: three blocks, each released with its own capacity
C21_Witness ==
    /\ st = "released"
    /\ op.name = "drop_holder"
    /\ Len(heap) >= 3
    /\ bytes.len < bytes.cap
    /\ \A b \in 1..Len(heap) : heap[b].frees = 1 /\ heap[b].passed = heap[b].cap
    /\ heap[1].cap < heap[2].cap
    /\ heap[2].cap < heap[3].cap

====
